---- MODULE Spec2Model ----
(***************************************************************************)
(* A model of the Othello Strategy class (private/Students/random/         *)
(* strategy.py): the rules engine (find_bracket, is_legal, make_move,      *)
(* legal_moves, next_player, score), the evaluators, the minimax and       *)
(* alpha-beta searchers, and the Monte Carlo engine with its statistics    *)
(* table self.scores.                                                      *)
(*                                                                         *)
(* A Python list is an object: a callee that is handed the caller's list   *)
(* may write to it.  Every operator that models a method taking `board`    *)
(* therefore returns, next to its value, the content of that list object   *)
(* after the call; the step-wise Monte Carlo part keeps the copies made    *)
(* by list(board) in `heap` and lets frames refer to them.                 *)
(***************************************************************************)
EXTENDS Integers, Sequences, FiniteSets, TLC

(***************************************************************************)
(* Othello_Core: cell states, squares and directions.                      *)
(***************************************************************************)
EMPTY == "."
BLACK == "@"
WHITE == "o"
OUTER == "?"

PLAYERS == {BLACK, WHITE}

\* DIRECTIONS: the eight offsets of the 10-wide linear encoding.
DIRECTIONS == <<-10, -9, 1, 11, 10, 9, -1, -11>>

\* Is index i one of the 64 playable cells (row and column in 1..8)?
Playable(i) == (i \div 10) \in 1..8 /\ (i % 10) \in 1..8

\* squares(): the playable indices in ascending order.
squares == SelectSeq([k \in 1..78 |-> k + 10], Playable)

\* Python's None where a move or a bracket is expected, and where a player is.
None == -1
NoPlayer == "None"

\* Python truthiness of an optional index: None and 0 are both falsy.
Falsy(x) == x = None \/ x = 0

Range(s) == {s[k] : k \in 1..Len(s)}

(***************************************************************************)
(* Rules engine.                                                           *)
(***************************************************************************)
opponent(player) == IF player = WHITE THEN BLACK ELSE WHITE

\* The while loop of find_bracket: step while the cell holds the opponent.
RECURSIVE ScanRun(_, _, _, _)
ScanRun(board, opp, bracket, direction) ==
    IF board[bracket] = opp
    THEN ScanRun(board, opp, bracket + direction, direction)
    ELSE bracket

\* find_bracket without the test of the neighbouring cell: a piece of the
\* player next to the square counts as a bracket.
find_bracket_own_neighbour(square, player, board, direction) ==
    LET bracket == ScanRun(board, opponent(player), square + direction, direction)
    IN IF board[bracket] \in {OUTER, EMPTY} THEN None ELSE bracket

find_bracket(square, player, board, direction) ==
    LET first == square + direction IN
    IF board[first] = player THEN None
    ELSE LET bracket == ScanRun(board, opponent(player), first, direction) IN
         IF board[bracket] \in {OUTER, EMPTY} THEN None ELSE bracket

\* is_legal without the test that the square is EMPTY.
is_legal_any_cell(move, player, board) ==
    \E k \in 1..Len(DIRECTIONS) :
        ~Falsy(find_bracket(move, player, board, DIRECTIONS[k]))

\* any(map(hasbracket, DIRECTIONS)): a bracket index is truthy unless it is 0.
is_legal(move, player, board) ==
    /\ board[move] = EMPTY
    /\ \E k \in 1..Len(DIRECTIONS) :
           ~Falsy(find_bracket(move, player, board, DIRECTIONS[k]))

\* The while loop of make_flips, writing into the list it was handed.
RECURSIVE FlipRun(_, _, _, _, _)
FlipRun(board, player, square, bracket, direction) ==
    IF square = bracket THEN board
    ELSE FlipRun([board EXCEPT ![square] = player], player,
                 square + direction, bracket, direction)

\* make_flips with `if` for `while`: only the first cell is turned.
make_flips_first_only(move, player, board, direction) ==
    LET bracket == find_bracket(move, player, board, direction) IN
    IF Falsy(bracket) THEN board
    ELSE [board EXCEPT ![move + direction] = player]

\* make_flips without `if not bracket: return`: with no bracket the loop
\* never meets it and writes every cell of the line, up to the end of the list.
make_flips_no_return(move, player, board, direction) ==
    LET bracket == find_bracket(move, player, board, direction) IN
    IF Falsy(bracket)
    THEN [i \in 0..99 |->
            IF \E j \in 1..99 : i = move + j * direction THEN player
            ELSE board[i]]
    ELSE FlipRun(board, player, move + direction, bracket, direction)

make_flips(move, player, board, direction) ==
    LET bracket == find_bracket(move, player, board, direction) IN
    IF Falsy(bracket) THEN board
    ELSE FlipRun(board, player, move + direction, bracket, direction)

\* The for loop of make_move over DIRECTIONS[k..].
RECURSIVE FlipAll(_, _, _, _)
FlipAll(move, player, board, k) ==
    IF k > Len(DIRECTIONS) THEN board
    ELSE FlipAll(move, player,
                 make_flips(move, player, board, DIRECTIONS[k]), k + 1)

\* The IllegalMoveError instance: it carries player, move and the board.
IllegalMoveError(player, move, board) ==
    [kind |-> "IllegalMoveError", player |-> player, move |-> move,
     board |-> board]

\* The other exceptions the methods can end with carry no data.
Exception(kind) ==
    [kind |-> kind, player |-> NoPlayer, move |-> None, board |-> <<>>]

NoError == Exception("none")

\* make_move that places the piece before it checks the move.
make_move_place_first(move, player, board) ==
    LET placed == [board EXCEPT ![move] = player] IN
    IF ~is_legal(move, player, board)
    THEN [raised |-> TRUE, error |-> IllegalMoveError(player, move, placed),
          board |-> placed]
    ELSE [raised |-> FALSE, error |-> NoError,
          board |-> FlipAll(move, player, placed, 1)]

\* make_move writes into `board` itself: the record holds whether it raised,
\* the error raised, and the content of the list afterwards.
make_move(move, player, board) ==
    IF ~is_legal(move, player, board)
    THEN [raised |-> TRUE, error |-> IllegalMoveError(player, move, board),
          board |-> board]
    ELSE [raised |-> FALSE, error |-> NoError,
          board |-> FlipAll(move, player, [board EXCEPT ![move] = player], 1)]

\* legal_moves that only asks for an empty square.
legal_moves_any_empty(player, board) ==
    SelectSeq(squares, LAMBDA sq : board[sq] = EMPTY)

legal_moves(player, board) ==
    SelectSeq(squares, LAMBDA sq : is_legal(sq, player, board))

any_legal_move(player, board) ==
    \E k \in 1..Len(squares) : is_legal(squares[k], player, board)

\* next_player that asks the previous player first.
next_player_prev_first(board, prev_player) ==
    LET opp == opponent(prev_player) IN
    IF any_legal_move(prev_player, board) THEN prev_player
    ELSE IF any_legal_move(opp, board) THEN opp
    ELSE NoPlayer

next_player(board, prev_player) ==
    LET opp == opponent(prev_player) IN
    IF any_legal_move(opp, board) THEN opp
    ELSE IF any_legal_move(prev_player, board) THEN prev_player
    ELSE NoPlayer

Count(board, piece) == Cardinality({k \in 1..Len(squares) : board[squares[k]] = piece})

score(player, board) == Count(board, player) - Count(board, opponent(player))

game_over(player, board) ==
    legal_moves(player, board) \o legal_moves(opponent(player), board) = <<>>

(***************************************************************************)
(* Evaluators.                                                             *)
(***************************************************************************)
SQUARE_WEIGHTS ==
    <<0,   0,   0,   0,  0,  0,   0,   0,   0, 0,
      0, 120, -20,  20,  5,  5,  20, -20, 120, 0,
      0, -20, -40,  -5, -5, -5,  -5, -40, -20, 0,
      0,  20,  -5,  15,  3,  3,  15,  -5,  20, 0,
      0,   5,  -5,   3,  3,  3,   3,  -5,   5, 0,
      0,   5,  -5,   3,  3,  3,   3,  -5,   5, 0,
      0,  20,  -5,  15,  3,  3,  15,  -5,  20, 0,
      0, -20, -40,  -5, -5, -5,  -5, -40, -20, 0,
      0, 120, -20,  20,  5,  5,  20, -20, 120, 0,
      0,   0,   0,   0,  0,  0,   0,   0,   0, 0>>

\* SQUARE_WEIGHTS[sq] with Python's 0-based index.
Weight(sq) == SQUARE_WEIGHTS[sq + 1]

Abs(x) == IF x < 0 THEN -x ELSE x

RECURSIVE SumAbs(_, _)
SumAbs(s, k) == IF k > Len(s) THEN 0 ELSE Abs(s[k]) + SumAbs(s, k + 1)

\* sum(SQUARE_WEIGHTS), without abs.
RECURSIVE SumPlain(_, _)
SumPlain(s, k) == IF k > Len(s) THEN 0 ELSE s[k] + SumPlain(s, k + 1)

MAX_VALUE_plain_sum == SumPlain(SQUARE_WEIGHTS, 1)

MAX_VALUE == SumAbs(SQUARE_WEIGHTS, 1)
MIN_VALUE == -MAX_VALUE

\* The for loop of weighted_score over squares()[k..].
RECURSIVE WeightedFrom(_, _, _)
WeightedFrom(player, board, k) ==
    IF k > Len(squares) THEN 0
    ELSE LET sq == squares[k] IN
         (IF board[sq] = player THEN Weight(sq)
          ELSE IF board[sq] = opponent(player) THEN -Weight(sq)
          ELSE 0) + WeightedFrom(player, board, k + 1)

weighted_score(player, board) == WeightedFrom(player, board, 1)

\* final_value with the two comparisons of diff the wrong way round.
final_value_swapped(player, board) ==
    LET diff == score(player, board) IN
    IF diff > 0 THEN MIN_VALUE
    ELSE IF diff < 0 THEN MAX_VALUE
    ELSE diff

final_value(player, board) ==
    LET diff == score(player, board) IN
    IF diff < 0 THEN MIN_VALUE
    ELSE IF diff > 0 THEN MAX_VALUE
    ELSE diff

\* The `evaluate` argument of the searchers, by name.
Evaluators == {"weighted_score", "score"}

evaluate(name, player, board) ==
    IF name = "weighted_score" THEN weighted_score(player, board)
    ELSE score(player, board)

(***************************************************************************)
(* Minimax and alpha-beta.  A search result holds whether the call raised, *)
(* the error, the returned pair (value, move) and the content of the       *)
(* caller's list after the call.                                           *)
(***************************************************************************)
Returned(value, move, board) ==
    [raised |-> FALSE, error |-> NoError, value |-> value, move |-> move,
     board |-> board]

Raised(error, board) ==
    [raised |-> TRUE, error |-> error, value |-> 0, move |-> None,
     board |-> board]

\* self.make_move(m, player, board) without list(): the move is made in the
\* caller's own list.
MoveOnCopy_in_place(m, player, board) ==
    [own |-> make_move(m, player, board).board,
     made |-> make_move(m, player, board)]

\* self.make_move(m, player, list(board)): list(board) is a fresh list, so
\* the writes of make_move land in the copy.  `own` is the content of the
\* caller's list afterwards, `made` what make_move did to its argument.
MoveOnCopy(m, player, board) ==
    [own |-> board, made |-> make_move(m, player, board)]

\* max() with key = the value alone: the first maximum stays.
TupleGreater_value_only(v1, m1, v2, m2) == v1 > v2

\* Python's order on the tuples (value, move) handed to max().
TupleGreater(v1, m1, v2, m2) == v1 > v2 \/ (v1 = v2 /\ m1 > m2)

RECURSIVE minimax(_, _, _, _)
RECURSIVE MinimaxMax(_, _, _, _, _, _, _, _)

\* max((value(make_move(m, player, list(board))), m) for m in moves), from
\* moves[k] on; `found` tells whether (bv, bm) is the maximum so far.
MinimaxMax(player, board, depth, ev, moves, k, found, best) ==
    IF k > Len(moves) THEN Returned(best[1], best[2], board)
    ELSE LET m  == moves[k]
             mc == MoveOnCopy(m, player, board)
         IN IF mc.made.raised THEN Raised(mc.made.error, mc.own)
            ELSE LET child == minimax(opponent(player), mc.made.board,
                                      depth - 1, ev)
                     val   == -child.value
                 IN IF child.raised THEN Raised(child.error, mc.own)
                    ELSE MinimaxMax(player, mc.own, depth, ev, moves, k + 1,
                             TRUE,
                             IF ~found \/ TupleGreater(val, m, best[1], best[2])
                             THEN <<val, m>> ELSE best)

minimax(player, board, depth, ev) ==
    IF depth = 0 THEN Returned(evaluate(ev, player, board), None, board)
    ELSE LET moves == legal_moves(player, board) IN
         IF moves = <<>>
         THEN IF ~any_legal_move(opponent(player), board)
              THEN Returned(final_value(player, board), None, board)
              ELSE \* value(board): the opponent searches the same list
                   LET r == minimax(opponent(player), board, depth - 1, ev)
                   IN IF r.raised THEN Raised(r.error, r.board)
                      ELSE Returned(-r.value, None, r.board)
         ELSE MinimaxMax(player, board, depth, ev, moves, 1, FALSE, <<0, None>>)

\* minimax_searcher(depth, evaluate)(player, board): the move of the pair.
minimax_searcher(depth, ev, player, board) == minimax(player, board, depth, ev)

\* list.sort(key, reverse=True) is stable: insert x after every element
\* whose key is at least as large.
RECURSIVE InsertDesc(_, _, _)
InsertDesc(sorted, x, k) ==
    IF k > Len(sorted) THEN Append(sorted, x)
    ELSE IF sorted[k][1] >= x[1] THEN InsertDesc(sorted, x, k + 1)
    ELSE SubSeq(sorted, 1, k - 1) \o <<x>> \o SubSeq(sorted, k, Len(sorted))

RECURSIVE SortDescFrom(_, _, _)
SortDescFrom(pairs, k, sorted) ==
    IF k > Len(pairs) THEN sorted
    ELSE SortDescFrom(pairs, k + 1, InsertDesc(sorted, pairs[k], 1))

\* moves.sort(key = lambda x: SQUARE_WEIGHTS[x], reverse=True)
SortByWeight(moves) ==
    LET pairs  == [k \in 1..Len(moves) |-> <<Weight(moves[k]), moves[k]>>]
        sorted == SortDescFrom(pairs, 1, <<>>)
    IN [k \in 1..Len(sorted) |-> sorted[k][2]]

RECURSIVE alphabeta(_, _, _, _, _, _)
RECURSIVE AlphabetaLoop(_, _, _, _, _, _, _, _, _)

\* The for loop with value() handing the opponent (alpha, beta) as they are.
AlphabetaLoop_same_window(player, board, alpha, beta, depth, ev, moves, k, best_move) ==
    IF k > Len(moves) \/ alpha >= beta THEN Returned(alpha, best_move, board)
    ELSE LET move == moves[k]
             mc   == MoveOnCopy(move, player, board)
         IN IF mc.made.raised THEN Raised(mc.made.error, mc.own)
            ELSE LET child == alphabeta(opponent(player), mc.made.board,
                                        alpha, beta, depth - 1, ev)
                     val   == -child.value
                 IN IF child.raised THEN Raised(child.error, mc.own)
                    ELSE IF val > alpha
                    THEN AlphabetaLoop(player, mc.own, val, beta, depth, ev,
                                       moves, k + 1, move)
                    ELSE AlphabetaLoop(player, mc.own, alpha, beta, depth, ev,
                                       moves, k + 1, best_move)

\* The for loop of alphabeta from moves[k] on.
AlphabetaLoop(player, board, alpha, beta, depth, ev, moves, k, best_move) ==
    IF k > Len(moves) \/ alpha >= beta THEN Returned(alpha, best_move, board)
    ELSE LET move == moves[k]
             mc   == MoveOnCopy(move, player, board)
         IN IF mc.made.raised THEN Raised(mc.made.error, mc.own)
            ELSE LET child == alphabeta(opponent(player), mc.made.board,
                                        -beta, -alpha, depth - 1, ev)
                     val   == -child.value
                 IN IF child.raised THEN Raised(child.error, mc.own)
                    ELSE IF val > alpha
                    THEN AlphabetaLoop(player, mc.own, val, beta, depth, ev,
                                       moves, k + 1, move)
                    ELSE AlphabetaLoop(player, mc.own, alpha, beta, depth, ev,
                                       moves, k + 1, best_move)

alphabeta(player, board, alpha, beta, depth, ev) ==
    IF depth = 0 THEN Returned(evaluate(ev, player, board), None, board)
    ELSE LET moves == SortByWeight(legal_moves(player, board)) IN
         IF moves = <<>>
         THEN IF ~any_legal_move(opponent(player), board)
              THEN Returned(final_value(player, board), None, board)
              ELSE LET r == alphabeta(opponent(player), board, -beta, -alpha,
                                      depth - 1, ev)
                   IN IF r.raised THEN Raised(r.error, r.board)
                      ELSE Returned(-r.value, None, r.board)
         ELSE AlphabetaLoop(player, board, alpha, beta, depth, ev, moves, 1,
                            moves[1])

\* alphabeta_searcher(depth, evaluate)(player, board)
alphabeta_searcher(depth, ev, player, board) ==
    alphabeta(player, board, MIN_VALUE, MAX_VALUE, depth, ev)

(***************************************************************************)
(* Numbers of the statistics table.  Python mixes ints and floats there;   *)
(* both are modelled as exact fractions <<numerator, denominator>> in      *)
(* lowest terms with a positive denominator (1 == 1.0, as in Python).      *)
(***************************************************************************)
RECURSIVE GCD(_, _)
GCD(a, b) == IF b = 0 THEN a ELSE GCD(b, a % b)

Rat(n, d) == LET g == GCD(Abs(n), d) IN <<n \div g, d \div g>>

Num(n) == <<n, 1>>

RAdd(a, b) == Rat(a[1] * b[2] + b[1] * a[2], a[2] * b[2])

\* a / b for b > 0
RDiv(a, b) == Rat(a[1] * b[2], a[2] * b[1])

RLess(a, b) == a[1] * b[2] < b[1] * a[2]

\* "".join(board): the cell characters in index order, as the sequence of
\* the 100 characters.
Key(board) == [k \in 1..100 |-> board[k - 1]]

\* scores[key] = entry on a dict
Put(table, key, entry) ==
    [x \in DOMAIN table \cup {key} |-> IF x = key THEN entry ELSE table[x]]

EmptyTable == [x \in {} |-> <<>>]

\* floor(10^6 / math.sqrt(n)) for n = 1..40
InvSqrtMicro ==
    <<1000000, 707106, 577350, 500000, 447213, 408248, 377964,
      353553, 333333, 316227, 301511, 288675, 277350, 267261,
      258198, 250000, 242535, 235702, 229415, 223606, 218217,
      213200, 208514, 204124, 200000, 196116, 192450, 188982,
      185695, 182574, 179605, 176776, 174077, 171498, 169030,
      166666, 164398, 162221, 160128, 158113>>

\* random.random()/10000 lies in [0, 0.0001): 100 millionths.
JitterMicro == 100

\* lookup_board_score without its random term, in millionths; only called
\* on a board whose key is in the table with integer wins and losses.
LookupMicro(table, board) ==
    LET e == table[Key(board)] IN
    (1000000 * e[3][1]) \div e[3][2] + InvSqrtMicro[e[1][1] + e[2][1]]

\* update_board_score(board, result) on the table
update_board_score(table, board, result) ==
    LET board_s == Key(board)
        w == IF board_s \in DOMAIN table THEN table[board_s][1] ELSE Num(0)
        l == IF board_s \in DOMAIN table THEN table[board_s][2] ELSE Num(0)
        n == RAdd(RAdd(w, l), Num(1))
    IN IF result > 0
       THEN Put(table, board_s, <<RAdd(w, Num(1)), l, RDiv(RAdd(w, Num(1)), n)>>)
       ELSE Put(table, board_s, <<w, RAdd(l, Num(1)), RDiv(w, n)>>)

\* The boards make_move(x, player, list(board)) yields for x = moves[k..],
\* as the sort keys of tree_playout and monte_carlo2 build them.
RECURSIVE ChildBoards(_, _, _, _, _)
ChildBoards(player, board, moves, k, boards) ==
    IF k > Len(moves)
    THEN [raised |-> FALSE, error |-> NoError, own |-> board, boards |-> boards]
    ELSE LET mc == MoveOnCopy(moves[k], player, board) IN
         IF mc.made.raised
         THEN [raised |-> TRUE, error |-> mc.made.error, own |-> mc.own,
               boards |-> boards]
         ELSE ChildBoards(player, mc.own, moves, k + 1,
                          Append(boards, mc.made.board))

Min(S) == CHOOSE x \in S : \A y \in S : x <= y
Max(S) == CHOOSE x \in S : \A y \in S : x >= y

\* The indices k for which moves[k] can come first after
\* moves.sort(key = lookup_board_score(child k), reverse = True): the first
\* child that is not in the table (all of those have key inf, and the sort
\* is stable), else every child whose score is less than the jitter below
\* the best score.
\* The sort without reverse = True: the lowest looked-up score comes first,
\* the unseen boards (math.inf) last.
FirstAfterSort_ascending(table, boards) ==
    LET seen == {k \in 1..Len(boards) : Key(boards[k]) \in DOMAIN table} IN
    IF seen = {} THEN {1}
    ELSE LET least == Min({LookupMicro(table, boards[k]) : k \in seen})
         IN {k \in seen : LookupMicro(table, boards[k]) - least < JitterMicro}

FirstAfterSort(table, boards) ==
    LET unseen == {k \in 1..Len(boards) : Key(boards[k]) \notin DOMAIN table} IN
    IF unseen # {} THEN {Min(unseen)}
    ELSE LET best == Max({LookupMicro(table, boards[k]) : k \in 1..Len(boards)})
         IN {k \in 1..Len(boards) :
                 best - LookupMicro(table, boards[k]) < JitterMicro}

(***************************************************************************)
(* Bounds of the model and the boards the caller starts from.              *)
(***************************************************************************)
\* Search depths handed to minimax and alphabeta: 1..MaxDepth.
MaxDepth == 2

\* Number of cells of WindowCells left open in the starting boards.
MaxWindow == 4

\* Moves the caller applies to its board with make_move.
MaxMoves == 1

\* Moves of one game played with the rules engine alone.
MaxGame == 3

\* Monte Carlo decisions started on one Strategy instance.
MaxCalls == 2

\* Trials handed to a direct random_score call: 1..MaxNum.
MaxNum == 2

\* Boards with at most this many EMPTY cells are given to the flat variant.
MaxFlatEmpty == 1

\* The `num` of monte_carlo1 and of monte_carlo2.
NumFlat == 10
NumTree == 10

\* A board from its eight rows of eight cells, with the OUTER border.
MakeBoard(rows) ==
    [i \in 0..99 |-> IF Playable(i) THEN rows[i \div 10][i % 10] ELSE OUTER]

\* A late-game position: every cell taken.
LateRows ==
    << <<BLACK, BLACK, BLACK, BLACK, WHITE, WHITE, WHITE, WHITE>>,
       <<WHITE, BLACK, BLACK, BLACK, BLACK, BLACK, BLACK, BLACK>>,
       <<BLACK, BLACK, BLACK, BLACK, BLACK, BLACK, BLACK, BLACK>>,
       <<BLACK, BLACK, BLACK, WHITE, BLACK, BLACK, BLACK, BLACK>>,
       <<WHITE, WHITE, BLACK, BLACK, BLACK, BLACK, WHITE, WHITE>>,
       <<BLACK, BLACK, BLACK, WHITE, WHITE, WHITE, BLACK, BLACK>>,
       <<BLACK, WHITE, WHITE, BLACK, WHITE, WHITE, BLACK, BLACK>>,
       <<BLACK, WHITE, BLACK, BLACK, WHITE, WHITE, WHITE, WHITE>> >>

\* The cells of the late-game position that the starting boards vary.
WindowCells == <<56, 32, 44, 27, 11, 88>>

Window == {WindowCells[k] : k \in 1..MaxWindow}

\* The late-game boards: each window cell EMPTY, BLACK or WHITE.
LateBoards ==
    {[i \in 0..99 |-> IF i \in Window THEN f[i] ELSE MakeBoard(LateRows)[i]] :
         f \in [Window -> {EMPTY, BLACK, WHITE}]}

\* A midgame position in which BLACK has eleven legal moves.
WideRows ==
    << <<BLACK, BLACK, BLACK, BLACK, BLACK, BLACK, BLACK, BLACK>>,
       <<BLACK, WHITE, WHITE, WHITE, WHITE, WHITE, WHITE, WHITE>>,
       <<BLACK, WHITE, EMPTY, EMPTY, EMPTY, EMPTY, EMPTY, EMPTY>>,
       <<BLACK, WHITE, EMPTY, EMPTY, EMPTY, EMPTY, EMPTY, EMPTY>>,
       <<BLACK, WHITE, EMPTY, EMPTY, EMPTY, EMPTY, EMPTY, EMPTY>>,
       <<BLACK, WHITE, EMPTY, EMPTY, EMPTY, EMPTY, EMPTY, EMPTY>>,
       <<BLACK, WHITE, EMPTY, EMPTY, EMPTY, EMPTY, EMPTY, EMPTY>>,
       <<BLACK, WHITE, EMPTY, EMPTY, EMPTY, EMPTY, EMPTY, EMPTY>> >>

WideBoard == MakeBoard(WideRows)

\* initial_board(): the standard opening.
initial_board ==
    [i \in 0..99 |-> IF i \in {44, 55} THEN WHITE
                     ELSE IF i \in {45, 54} THEN BLACK
                     ELSE IF Playable(i) THEN EMPTY ELSE OUTER]

StartBoards == LateBoards \cup {initial_board}

(***************************************************************************)
(* State.                                                                  *)
(***************************************************************************)
VARIABLES
    board,    \* the caller's board list
    player,   \* the player the caller moves or decides for
    scores,   \* self.scores: board key -> (number, number, number)
    stack,    \* the frames of the running Monte Carlo call, innermost last
    heap,     \* the lists made by list(board) that running frames hold
    retval,   \* the value the frame that returned last handed to its caller
    ret,      \* the last call of the caller: what it was and how it ended
    calls,    \* Monte Carlo decisions started so far
    moved     \* moves the caller has applied to its board

vars == <<board, player, scores, stack, heap, retval, ret, calls, moved>>

\* The record of a call: op and arguments, the caller's board on entry, and
\* once it ended the value, move, statistics triple or error it ended with.
\* For a random_score call it also keeps the table entry of the board before
\* the call (`prior`) and the number of its playouts that scored above zero
\* (`hits`).
NoStats == <<Num(0), Num(0), Num(0)>>

Call(op, arg, ev, status) ==
    [op |-> op, status |-> status, entry |-> board, player |-> player,
     arg |-> arg, ev |-> ev, value |-> 0, move |-> None, next |-> NoPlayer,
     stats |-> NoStats, prior |-> NoStats, hits |-> 0, error |-> NoError]

Idle == stack = <<>>

MonteCarloOps == {"random_score", "monte_carlo1", "monte_carlo2"}

\* The caller has just reached this position: nothing was asked about it yet.
Fresh ==
    ret.op = "none" \/ (ret.op = "make_move" /\ ret.status = "returned")

\* The caller asks about a position, or moves on it, once it is reached;
\* Monte Carlo decisions may also follow one another on the same position.
MayAsk == Idle /\ Fresh

MayDecide == Idle /\ (Fresh \/ ret.op \in MonteCarloOps) /\ calls < MaxCalls

Top == stack[Len(stack)]

Pop == SubSeq(stack, 1, Len(stack) - 1)

\* The list a frame refers to: 0 is the caller's board, r > 0 is heap[r].
BoardAt(ref) == IF ref = 0 THEN board ELSE heap[ref]

\* A frame: the method, its player, the list its `board` refers to, where it
\* stands, and its locals.  `key` is the key of the board when the frame was
\* entered (random_score and random_playout compute it as board_s).
Frame(fn, pl, b, ref, site) ==
    [fn |-> fn, player |-> pl, ref |-> ref, site |-> site, key |-> Key(b),
     wins |-> Num(0), losses |-> Num(0), hits |-> 0, i |-> 0, num |-> 0,
     moves |-> <<>>, acc |-> <<>>]

\* The frame of random_score(pl, BoardAt(ref), num) after its first lines:
\* the entry of the board's key is unpacked as (value, wins, losses).
RandomScoreFrame(pl, b, ref, num) ==
    LET board_s == Key(b)
        known   == board_s \in DOMAIN scores
    IN [Frame("random_score", pl, b, ref, "loop") EXCEPT
            !.num = num,
            !.wins = IF known THEN scores[board_s][2] ELSE Num(0),
            !.losses = IF known THEN scores[board_s][3] ELSE Num(0)]

\* The top frame calls f: it waits at `site`, f runs above it.
PushOn(site, f) == Append(Pop, [Top EXCEPT !.site = site]) \o <<f>>

\* An exception nobody catches unwinds the whole stack.
Raise(error) ==
    /\ stack' = <<>>
    /\ heap' = <<>>
    /\ retval' = 0
    /\ ret' = [ret EXCEPT !.status = "raised", !.error = error]

\* make_move(m, pl, list(BoardAt(ref))): the copy becomes a new list of the
\* heap; `own` is what the call left in the list it copied from.
StoreOwn(ref, own) ==
    /\ board' = IF ref = 0 THEN own ELSE board
    /\ heap' = IF ref = 0 THEN heap ELSE [heap EXCEPT ![ref] = own]

StoreOwnAndCopy(ref, own, copy) ==
    /\ board' = IF ref = 0 THEN own ELSE board
    /\ heap' = Append(IF ref = 0 THEN heap ELSE [heap EXCEPT ![ref] = own], copy)

\* The list the child of a "move" site worked on is dropped on its return.
HeapAfterReturn(site) ==
    IF site = "move" THEN SubSeq(heap, 1, Len(heap) - 1) ELSE heap

InitOn(boards) ==
    /\ board \in boards
    /\ player \in PLAYERS
    /\ scores = EmptyTable
    /\ stack = <<>>
    /\ heap = <<>>
    /\ retval = 0
    /\ ret = Call("none", 0, "none", "idle")
    /\ calls = 0
    /\ moved = 0

Init == InitOn(StartBoards)

(***************************************************************************)
(* The caller applies a move, asks who is next, or runs a search.          *)
(***************************************************************************)
\* make_move(m, player, board) on the caller's board, and the turn it leaves.
MoveApplied(m) ==
    /\ LET r  == make_move(m, player, board)
           np == next_player(r.board, player)
       IN /\ board' = r.board
          /\ ret' = [Call("make_move", m, "none",
                          IF r.raised THEN "raised" ELSE "returned")
                       EXCEPT !.error = r.error]
          /\ player' = IF r.raised \/ np = NoPlayer THEN player ELSE np
          /\ moved' = IF r.raised THEN moved ELSE moved + 1
    /\ UNCHANGED <<scores, stack, heap, retval, calls>>

MakeMove(m) ==
    /\ MayAsk
    /\ moved < MaxMoves
    /\ MoveApplied(m)

\* A move of a game that only the rules engine plays.
PlayMove(m) ==
    /\ MayAsk
    /\ moved < MaxGame
    /\ MoveApplied(m)

NextPlayer ==
    /\ MayAsk
    /\ \E prev_player \in PLAYERS :
         ret' = [Call("next_player", 0, "none", "returned")
                   EXCEPT !.player = prev_player,
                          !.next = next_player(board, prev_player)]
    /\ UNCHANGED <<board, player, scores, stack, heap, retval, calls, moved>>

\* The end of a minimax or alphabeta call in the caller's state.
SearchEnds(op, depth, ev, r) ==
    /\ board' = r.board
    /\ ret' = [Call(op, depth, ev, IF r.raised THEN "raised" ELSE "returned")
                 EXCEPT !.value = r.value, !.move = r.move, !.error = r.error]
    /\ UNCHANGED <<player, scores, stack, heap, retval, calls, moved>>

Minimax(depth, ev) ==
    /\ MayAsk
    /\ SearchEnds("minimax", depth, ev, minimax_searcher(depth, ev, player, board))

Alphabeta(depth, ev) ==
    /\ MayAsk
    /\ SearchEnds("alphabeta", depth, ev,
                  alphabeta_searcher(depth, ev, player, board))

(***************************************************************************)
(* The Monte Carlo engine, one frame step at a time.                       *)
(***************************************************************************)
FlatAllowed == Count(board, EMPTY) <= MaxFlatEmpty

\* The caller calls random_score(player, board, num).
CallRandomScore(num) ==
    /\ MayDecide
    /\ FlatAllowed
    /\ stack' = <<RandomScoreFrame(player, board, 0, num)>>
    /\ ret' = [Call("random_score", num, "none", "running") EXCEPT
                   !.prior = IF Key(board) \in DOMAIN scores
                             THEN scores[Key(board)] ELSE NoStats]
    /\ calls' = calls + 1
    /\ UNCHANGED <<board, player, scores, heap, retval, moved>>

\* for i in range(num): score = self.random_playout(player, board)
RandomScoreLoop ==
    /\ ~Idle
    /\ Top.fn = "random_score" /\ Top.site = "loop" /\ Top.i < Top.num
    /\ stack' = PushOn("wait", Frame("random_playout", Top.player,
                                      BoardAt(Top.ref), Top.ref, "call"))
    /\ UNCHANGED <<board, player, scores, heap, retval, ret, calls, moved>>

\* if score > 0: wins += 1 else: losses += 1
RandomScoreCount ==
    /\ ~Idle
    /\ Top.fn = "random_score" /\ Top.site = "wait"
    /\ stack' = Append(Pop,
           [Top EXCEPT !.site = "loop", !.i = @ + 1,
                !.hits = IF retval > 0 THEN @ + 1 ELSE @,
                !.wins = IF retval > 0 THEN RAdd(@, Num(1)) ELSE @,
                !.losses = IF retval > 0 THEN @ ELSE RAdd(@, Num(1))])
    /\ UNCHANGED <<board, player, scores, heap, retval, ret, calls, moved>>

\* self.scores[board_s] = (wins, losses, wins / (wins + losses)) and the
\* return of (wins / (wins + losses), wins, wins + losses).
RandomScoreDone ==
    /\ ~Idle
    /\ Top.fn = "random_score" /\ Top.site = "loop" /\ Top.i = Top.num
    /\ LET total == RAdd(Top.wins, Top.losses)
           rate  == RDiv(Top.wins, total)
           out   == <<rate, Top.wins, total>>
       IN /\ scores' = Put(scores, Top.key, <<Top.wins, Top.losses, rate>>)
          /\ retval' = out
          /\ stack' = Pop
          /\ ret' = IF Pop = <<>>
                    THEN [ret EXCEPT !.status = "returned", !.stats = out,
                                     !.hits = Top.hits]
                    ELSE ret
    /\ UNCHANGED <<board, player, heap, calls, moved>>

\* random_playout: move = random.choice(moves) and the recursive call on
\* make_move(move, player, list(board)).
RandomPlayoutMove ==
    /\ ~Idle
    /\ Top.fn = "random_playout" /\ Top.site = "call"
    /\ LET moves == legal_moves(Top.player, BoardAt(Top.ref)) IN
       /\ moves # <<>>
       /\ \E k \in 1..Len(moves) :
            LET mc == MoveOnCopy(moves[k], Top.player, BoardAt(Top.ref)) IN
            IF mc.made.raised
            THEN /\ Raise(mc.made.error)
                 /\ board' = IF Top.ref = 0 THEN mc.own ELSE board
                 /\ UNCHANGED scores
            ELSE /\ StoreOwnAndCopy(Top.ref, mc.own, mc.made.board)
                 /\ stack' = PushOn("move",
                        Frame("random_playout", opponent(Top.player),
                              mc.made.board, Len(heap) + 1, "call"))
                 /\ UNCHANGED <<scores, retval, ret>>
    /\ UNCHANGED <<player, calls, moved>>

\* The pass of random_playout without self.opponent(player): the player who
\* cannot move is asked again.
RandomPlayoutPass_same_player ==
    /\ ~Idle
    /\ Top.fn = "random_playout" /\ Top.site = "call"
    /\ legal_moves(Top.player, BoardAt(Top.ref)) = <<>>
    /\ legal_moves(opponent(Top.player), BoardAt(Top.ref)) # <<>>
    /\ stack' = PushOn("pass",
           Frame("random_playout", Top.player, BoardAt(Top.ref),
                 Top.ref, "call"))
    /\ UNCHANGED <<board, player, scores, heap, retval, ret, calls, moved>>

\* random_playout: no move, but the opponent has one: recurse on `board`.
RandomPlayoutPass ==
    /\ ~Idle
    /\ Top.fn = "random_playout" /\ Top.site = "call"
    /\ legal_moves(Top.player, BoardAt(Top.ref)) = <<>>
    /\ legal_moves(opponent(Top.player), BoardAt(Top.ref)) # <<>>
    /\ stack' = PushOn("pass",
           Frame("random_playout", opponent(Top.player), BoardAt(Top.ref),
                 Top.ref, "call"))
    /\ UNCHANGED <<board, player, scores, heap, retval, ret, calls, moved>>

\* random_playout: nobody can move: return self.score(player, board).
RandomPlayoutOver ==
    /\ ~Idle
    /\ Top.fn = "random_playout" /\ Top.site = "call"
    /\ legal_moves(Top.player, BoardAt(Top.ref)) = <<>>
    /\ legal_moves(opponent(Top.player), BoardAt(Top.ref)) = <<>>
    /\ retval' = score(Top.player, BoardAt(Top.ref))
    /\ stack' = Pop
    /\ UNCHANGED <<board, player, scores, heap, ret, calls, moved>>

\* random_playout: return -self.random_playout(...)
RandomPlayoutReturn ==
    /\ ~Idle
    /\ Top.fn = "random_playout" /\ Top.site \in {"move", "pass"}
    /\ retval' = -retval
    /\ heap' = HeapAfterReturn(Top.site)
    /\ stack' = Pop
    /\ UNCHANGED <<board, player, scores, ret, calls, moved>>

\* Python's order on the tuples ((rate, wins, total), m) of monte_carlo1.
ScoreGreater(a, b) ==
    \/ RLess(b[1][1], a[1][1])
    \/ /\ a[1][1] = b[1][1]
       /\ \/ RLess(b[1][2], a[1][2])
          \/ /\ a[1][2] = b[1][2]
             /\ \/ RLess(b[1][3], a[1][3])
                \/ (a[1][3] = b[1][3] /\ a[2] > b[2])

\* The caller calls monte_carlo1(player, board).
MonteCarlo1Called ==
    /\ stack' = <<[Frame("monte_carlo1", player, board, 0, "loop") EXCEPT
                      !.moves = legal_moves(player, board), !.i = 1]>>
    /\ ret' = Call("monte_carlo1", NumFlat, "none", "running")
    /\ calls' = calls + 1
    /\ UNCHANGED <<board, player, scores, heap, retval, moved>>

CallMonteCarlo1 == MayDecide /\ FlatAllowed /\ MonteCarlo1Called

\* The list comprehension of monte_carlo1 reaches the move m = moves[i]:
\* self.random_score(player, self.make_move(m, player, list(board)), num).
MonteCarlo1Next ==
    /\ ~Idle
    /\ Top.fn = "monte_carlo1" /\ Top.site = "loop" /\ Top.i <= Len(Top.moves)
    /\ LET mc == MoveOnCopy(Top.moves[Top.i], Top.player, BoardAt(Top.ref)) IN
       IF mc.made.raised
       THEN /\ Raise(mc.made.error)
            /\ board' = IF Top.ref = 0 THEN mc.own ELSE board
       ELSE /\ StoreOwnAndCopy(Top.ref, mc.own, mc.made.board)
            /\ stack' = PushOn("move",
                   RandomScoreFrame(Top.player, mc.made.board, Len(heap) + 1,
                                    NumFlat))
            /\ UNCHANGED <<retval, ret>>
    /\ UNCHANGED <<player, scores, calls, moved>>

\* random_score returned: the pair (its triple, m) joins the list.
MonteCarlo1Count ==
    /\ ~Idle
    /\ Top.fn = "monte_carlo1" /\ Top.site = "move"
    /\ stack' = Append(Pop,
           [Top EXCEPT !.site = "loop", !.i = @ + 1,
                !.acc = Append(@, <<retval, Top.moves[Top.i]>>)])
    /\ heap' = HeapAfterReturn(Top.site)
    /\ UNCHANGED <<board, player, scores, retval, ret, calls, moved>>

\* return sorted(scores, reverse = True)[0][1]
MonteCarlo1Done ==
    /\ ~Idle
    /\ Top.fn = "monte_carlo1" /\ Top.site = "loop" /\ Top.i > Len(Top.moves)
    /\ IF Top.acc = <<>>
       THEN Raise(Exception("IndexError"))
       ELSE LET best == CHOOSE a \in Range(Top.acc) :
                           \A b \in Range(Top.acc) : a = b \/ ScoreGreater(a, b)
            IN /\ ret' = [ret EXCEPT !.status = "returned", !.move = best[2],
                                     !.stats = best[1]]
               /\ retval' = best[2]
               /\ stack' = <<>>
               /\ heap' = heap
    /\ UNCHANGED <<board, player, scores, calls, moved>>

\* The caller calls monte_carlo2(player, board): self.scores = {}.
CallMonteCarlo2 ==
    /\ MayDecide
    /\ scores' = EmptyTable
    /\ stack' = <<Frame("monte_carlo2", player, board, 0, "loop")>>
    /\ ret' = Call("monte_carlo2", NumTree, "none", "running")
    /\ calls' = calls + 1
    /\ UNCHANGED <<board, player, heap, retval, moved>>

\* for i in range(num): self.tree_playout(player, board)
MonteCarlo2Next ==
    /\ ~Idle
    /\ Top.fn = "monte_carlo2" /\ Top.site = "loop" /\ Top.i < NumTree
    /\ stack' = PushOn("wait", Frame("tree_playout", Top.player,
                                      BoardAt(Top.ref), Top.ref, "call"))
    /\ UNCHANGED <<board, player, scores, heap, retval, ret, calls, moved>>

MonteCarlo2Count ==
    /\ ~Idle
    /\ Top.fn = "monte_carlo2" /\ Top.site = "wait"
    /\ stack' = Append(Pop, [Top EXCEPT !.site = "loop", !.i = @ + 1])
    /\ UNCHANGED <<board, player, scores, heap, retval, ret, calls, moved>>

\* The lines of monte_carlo2 after the loop: sort the moves by the looked-up
\* score of their boards, take the first, read the entry of every move's
\* board for the printout, return the move.
MonteCarlo2Done ==
    /\ ~Idle
    /\ Top.fn = "monte_carlo2" /\ Top.site = "loop" /\ Top.i = NumTree
    /\ LET moves == legal_moves(Top.player, BoardAt(Top.ref))
           kids  == ChildBoards(Top.player, BoardAt(Top.ref), moves, 1, <<>>)
       IN /\ board' = kids.own
          /\ IF kids.raised THEN Raise(kids.error)
             ELSE IF moves = <<>> THEN Raise(Exception("IndexError"))
             ELSE IF \E k \in 1..Len(moves) :
                        Key(kids.boards[k]) \notin DOMAIN scores
             THEN Raise(Exception("KeyError"))
             ELSE \E k \in FirstAfterSort(scores, kids.boards) :
                    /\ ret' = [ret EXCEPT !.status = "returned",
                                          !.move = moves[k]]
                    /\ retval' = moves[k]
                    /\ stack' = <<>>
                    /\ heap' = heap
    /\ UNCHANGED <<player, scores, calls, moved>>

\* tree_playout: sort the moves by the looked-up score of their boards and
\* recurse on make_move(moves[0], player, list(board)).
TreePlayoutMove ==
    /\ ~Idle
    /\ Top.fn = "tree_playout" /\ Top.site = "call"
    /\ LET moves == legal_moves(Top.player, BoardAt(Top.ref))
           kids  == ChildBoards(Top.player, BoardAt(Top.ref), moves, 1, <<>>)
       IN /\ moves # <<>>
          /\ IF kids.raised
             THEN /\ Raise(kids.error)
                  /\ board' = IF Top.ref = 0 THEN kids.own ELSE board
             ELSE \E k \in FirstAfterSort(scores, kids.boards) :
                    LET mc == MoveOnCopy(moves[k], Top.player, kids.own) IN
                    IF mc.made.raised
                    THEN /\ Raise(mc.made.error)
                         /\ board' = IF Top.ref = 0 THEN mc.own ELSE board
                    ELSE /\ StoreOwnAndCopy(Top.ref, mc.own, mc.made.board)
                         /\ stack' = PushOn("move",
                                Frame("tree_playout", opponent(Top.player),
                                      mc.made.board, Len(heap) + 1, "call"))
                         /\ UNCHANGED <<retval, ret>>
    /\ UNCHANGED <<player, scores, calls, moved>>

\* tree_playout: no move, but the opponent has one: recurse on `board`.
TreePlayoutPass ==
    /\ ~Idle
    /\ Top.fn = "tree_playout" /\ Top.site = "call"
    /\ legal_moves(Top.player, BoardAt(Top.ref)) = <<>>
    /\ legal_moves(opponent(Top.player), BoardAt(Top.ref)) # <<>>
    /\ stack' = PushOn("pass",
           Frame("tree_playout", opponent(Top.player), BoardAt(Top.ref),
                 Top.ref, "call"))
    /\ UNCHANGED <<board, player, scores, heap, retval, ret, calls, moved>>

\* tree_playout: nobody can move: the score is the result.
TreePlayoutOver ==
    /\ ~Idle
    /\ Top.fn = "tree_playout" /\ Top.site = "call"
    /\ legal_moves(Top.player, BoardAt(Top.ref)) = <<>>
    /\ legal_moves(opponent(Top.player), BoardAt(Top.ref)) = <<>>
    /\ LET result == score(Top.player, BoardAt(Top.ref)) IN
       /\ scores' = update_board_score(scores, BoardAt(Top.ref), result)
       /\ retval' = result
    /\ stack' = Pop
    /\ UNCHANGED <<board, player, heap, ret, calls, moved>>

\* tree_playout: result = -self.tree_playout(...), then the update of the
\* entry of this frame's board.
TreePlayoutReturn ==
    /\ ~Idle
    /\ Top.fn = "tree_playout" /\ Top.site \in {"move", "pass"}
    /\ LET result == -retval IN
       /\ scores' = update_board_score(scores, BoardAt(Top.ref), result)
       /\ retval' = result
    /\ heap' = HeapAfterReturn(Top.site)
    /\ stack' = Pop
    /\ UNCHANGED <<board, player, ret, calls, moved>>

(***************************************************************************)
(* Specifications.                                                         *)
(***************************************************************************)
Search ==
    \/ \E depth \in 1..MaxDepth, ev \in Evaluators : Minimax(depth, ev)
    \/ \E depth \in 1..MaxDepth, ev \in Evaluators : Alphabeta(depth, ev)

FlatMonteCarlo ==
    \/ \E num \in 1..MaxNum : CallRandomScore(num)
    \/ RandomScoreLoop
    \/ RandomScoreCount
    \/ RandomScoreDone
    \/ RandomPlayoutMove
    \/ RandomPlayoutPass
    \/ RandomPlayoutOver
    \/ RandomPlayoutReturn
    \/ CallMonteCarlo1
    \/ MonteCarlo1Next
    \/ MonteCarlo1Count
    \/ MonteCarlo1Done

TreeMonteCarlo ==
    \/ CallMonteCarlo2
    \/ MonteCarlo2Next
    \/ MonteCarlo2Count
    \/ MonteCarlo2Done
    \/ TreePlayoutMove
    \/ TreePlayoutPass
    \/ TreePlayoutOver
    \/ TreePlayoutReturn

\* The rules engine and the two tree searchers on every starting board.
Next ==
    \/ \E k \in 1..Len(squares) : MakeMove(squares[k])
    \/ NextPlayer
    \/ Search

Spec == Init /\ [][Next]_vars

\* The rules engine alone, over longer games.
NextRules ==
    \/ \E k \in 1..Len(squares) : PlayMove(squares[k])
    \/ NextPlayer

SpecRules == Init /\ [][NextRules]_vars

\* The boards with the largest weighted scores: BLACK on every square of
\* positive weight and WHITE on the others, but for the window cells.
HeavyBoard ==
    [i \in 0..99 |-> IF ~Playable(i) THEN OUTER
                     ELSE IF Weight(i) > 0 THEN BLACK ELSE WHITE]

HeavyBoards ==
    {[i \in 0..99 |-> IF i \in Window THEN f[i] ELSE HeavyBoard[i]] :
         f \in [Window -> {EMPTY, BLACK, WHITE}]}

\* The caller evaluates its board for a player.
WeightedScore ==
    /\ MayAsk
    /\ \E pl \in PLAYERS :
         ret' = [Call("weighted_score", 0, "weighted_score", "returned")
                   EXCEPT !.player = pl, !.value = weighted_score(pl, board)]
    /\ UNCHANGED <<board, player, scores, stack, heap, retval, calls, moved>>

FinalValue ==
    /\ MayAsk
    /\ \E pl \in PLAYERS :
         ret' = [Call("final_value", 0, "none", "returned")
                   EXCEPT !.player = pl, !.value = final_value(pl, board)]
    /\ UNCHANGED <<board, player, scores, stack, heap, retval, calls, moved>>

\* The evaluators on the heavy boards and on the boards of a game.
InitEval == InitOn(HeavyBoards \cup StartBoards)

NextEval ==
    \/ WeightedScore
    \/ FinalValue
    \/ \E k \in 1..Len(squares) : MakeMove(squares[k])

SpecEval == InitEval /\ [][NextEval]_vars

\* The boards the Monte Carlo engine is run on: the late-game boards with
\* the first MaxMCWindow window cells open, and the wide midgame board.
MaxMCWindow == 2

MCBoards ==
    {b \in LateBoards : \A k \in 1..MaxWindow :
         k > MaxMCWindow => b[WindowCells[k]] = MakeBoard(LateRows)[WindowCells[k]]}
    \cup {WideBoard}

InitMC == InitOn(MCBoards)

NextMC == Search \/ FlatMonteCarlo \/ TreeMonteCarlo

SpecMC == InitMC /\ [][NextMC]_vars

\* The steps of a playout.
PlayoutStep ==
    \/ RandomPlayoutMove \/ RandomPlayoutPass
    \/ RandomPlayoutOver \/ RandomPlayoutReturn
    \/ TreePlayoutMove \/ TreePlayoutPass
    \/ TreePlayoutOver \/ TreePlayoutReturn

\* The frame on top of the stack is a call of a playout: it is at its first
\* line, where one of the three branches is taken, or at a recursive call
\* that has returned, so PlayoutStep is enabled.
InPlayout == ~Idle /\ Top.fn \in {"random_playout", "tree_playout"}

\* monte_carlo1 decides once, on a board with up to MaxFlatDecide EMPTY
\* cells, on a Strategy object that has decided nothing yet.
MaxFlatDecide == 2

FlatBoards == {b \in MCBoards : Count(b, EMPTY) <= MaxFlatDecide}

DecideMonteCarlo1 == MayAsk /\ calls = 0 /\ MonteCarlo1Called

NextFlat ==
    \/ DecideMonteCarlo1
    \/ MonteCarlo1Next
    \/ MonteCarlo1Count
    \/ MonteCarlo1Done
    \/ RandomScoreLoop
    \/ RandomScoreCount
    \/ RandomScoreDone
    \/ RandomPlayoutMove
    \/ RandomPlayoutPass
    \/ RandomPlayoutOver
    \/ RandomPlayoutReturn

SpecFlat == InitOn(FlatBoards) /\ [][NextFlat]_vars

\* One decision made of playouts on a Strategy object that has decided
\* nothing yet: a random_score call, or a monte_carlo2 call.
StartRandomScore == calls = 0 /\ \E num \in 1..MaxNum : CallRandomScore(num)

StartMonteCarlo2 == calls = 0 /\ CallMonteCarlo2

NextPlayout ==
    \/ StartRandomScore
    \/ RandomScoreLoop
    \/ RandomScoreCount
    \/ RandomScoreDone
    \/ StartMonteCarlo2
    \/ MonteCarlo2Next
    \/ MonteCarlo2Count
    \/ MonteCarlo2Done
    \/ PlayoutStep

SpecPlayout == InitMC /\ [][NextPlayout]_vars

\* The interpreter runs one thread and never stops in the middle of a call:
\* a step of a playout that can be taken is taken.  This is
\* WF_vars(PlayoutStep) with ENABLED <<PlayoutStep>>_vars written out as
\* InPlayout.
SpecPlayoutFair == SpecPlayout /\ ([]<>(~InPlayout) \/ []<><<PlayoutStep>>_vars)

(***************************************************************************)
(* Properties.                                                             *)
(***************************************************************************)
\* The directions in which find_bracket finds a bracket for a move.
BracketDirs(move, pl, b) ==
    {k \in 1..Len(DIRECTIONS) :
         ~Falsy(find_bracket(move, pl, b, DIRECTIONS[k]))}

\* The cells strictly between a move and its bracket in direction k.
Interior(move, pl, b, k) ==
    LET d  == DIRECTIONS[k]
        br == find_bracket(move, pl, b, d)
    IN {move + j * d : j \in 1..((br - move) \div d) - 1}

\* The board a legal move must leave: the move cell and the interior cells
\* of every bracketed direction hold the player, every other cell is as on
\* the board before the move.
BoardAfterMove(move, pl, b) ==
    LET turned == UNION {Interior(move, pl, b, k) : k \in BracketDirs(move, pl, b)}
    IN [i \in 0..99 |-> IF i = move \/ i \in turned THEN pl ELSE b[i]]

\* C1: after make_move with a move that is_legal accepts, the move cell and
\* every cell strictly between the move and a bracket found on the board
\* before the move hold the player, and every other cell (the OUTER border
\* and the directions without a bracket included) is unchanged.
C1_MakeMoveFlips ==
    (ret.op = "make_move" /\ is_legal(ret.arg, ret.player, ret.entry))
        => /\ ret.status = "returned"
           /\ board = BoardAfterMove(ret.arg, ret.player, ret.entry)

\* A legal move was made that brackets in two or more directions, turns a
\* run of two or more cells in one of them and has a direction without a
\* bracket.
C1_Witness ==
    /\ ret.op = "make_move" /\ ret.status = "returned"
    /\ Cardinality(BracketDirs(ret.arg, ret.player, ret.entry)) \in 2..7
    /\ \E k \in BracketDirs(ret.arg, ret.player, ret.entry) :
           Cardinality(Interior(ret.arg, ret.player, ret.entry, k)) >= 2

\* C2: make_move with a move that is_legal rejects raises IllegalMoveError
\* with the player, the move and the board, and the board is as before.
C2_IllegalMoveRaises ==
    (ret.op = "make_move" /\ ~is_legal(ret.arg, ret.player, ret.entry))
        => /\ ret.status = "raised"
           /\ ret.error = [kind |-> "IllegalMoveError", player |-> ret.player,
                           move |-> ret.arg, board |-> ret.entry]
           /\ board = ret.entry

\* make_move was refused on an EMPTY cell that brackets nothing.
C2_Witness ==
    /\ ret.op = "make_move" /\ ret.status = "raised"
    /\ ret.entry[ret.arg] = EMPTY
    /\ BracketDirs(ret.arg, ret.player, ret.entry) = {}

\* The value of a move at the root of a search: the opposite of what the
\* opponent gets, depth - 1 plies deep, from the board the move leaves.
MoveValue(pl, b, depth, ev, m) ==
    -minimax(opponent(pl), make_move(m, pl, b).board, depth - 1, ev).value

\* The positions in legal_moves order of the moves whose value is the maximum.
BestMoves(pl, b, depth, ev) ==
    LET moves == legal_moves(pl, b)
        top   == Max({MoveValue(pl, b, depth, ev, moves[k]) : k \in 1..Len(moves)})
    IN {k \in 1..Len(moves) : MoveValue(pl, b, depth, ev, moves[k]) = top}

\* After move m the opponent has to pass / nobody can move.
LeavesPass(pl, b, m) ==
    LET after == make_move(m, pl, b).board IN
    legal_moves(opponent(pl), after) = <<>> /\ legal_moves(pl, after) # <<>>

LeavesGameOver(pl, b, m) ==
    LET after == make_move(m, pl, b).board IN
    legal_moves(opponent(pl), after) = <<>> /\ legal_moves(pl, after) = <<>>

\* C3: with weighted_score and depth >= 1, alphabeta on the window
\* (MIN_VALUE, MAX_VALUE) returns the value minimax returns for the same
\* player, board and depth; where the two moves differ, both moves have
\* that value (they tie).
C3_AlphabetaEqualsMinimax ==
    (ret.op = "alphabeta" /\ ret.ev = "weighted_score")
        => LET mm == minimax(ret.player, ret.entry, ret.arg, ret.ev) IN
           /\ ret.status = "returned"
           /\ ~mm.raised
           /\ ret.value = mm.value
           /\ ret.move # mm.move
                => /\ MoveValue(ret.player, ret.entry, ret.arg, ret.ev, ret.move)
                        = mm.value
                   /\ MoveValue(ret.player, ret.entry, ret.arg, ret.ev, mm.move)
                        = mm.value

\* alphabeta ended a search of two or more plies over two or more moves, one
\* of which leaves the opponent without a move.
C3_Witness ==
    /\ ret.op = "alphabeta" /\ ret.ev = "weighted_score"
    /\ ret.status = "returned" /\ ret.arg >= 2
    /\ Len(legal_moves(ret.player, ret.entry)) >= 2
    /\ \E m \in Range(legal_moves(ret.player, ret.entry)) :
           LeavesPass(ret.player, ret.entry, m)

\* alphabeta ended a search with another move than minimax chooses.
C3_WitnessOtherMove ==
    /\ ret.op = "alphabeta" /\ ret.ev = "weighted_score"
    /\ ret.status = "returned" /\ ret.arg >= 2
    /\ ret.move # minimax(ret.player, ret.entry, ret.arg, ret.ev).move

\* alphabeta ended a search in which a move ends the game.
C3_WitnessGameOver ==
    /\ ret.op = "alphabeta" /\ ret.ev = "weighted_score"
    /\ ret.status = "returned" /\ ret.arg >= 2
    /\ \E m \in Range(legal_moves(ret.player, ret.entry)) :
           LeavesGameOver(ret.player, ret.entry, m)

\* C4 as stated: with a legal move and depth >= 1, minimax returns the
\* maximum of the move values and, of the moves that attain it, the one that
\* comes first in legal_moves order.
C4_FirstMaximum ==
    (ret.op = "minimax" /\ legal_moves(ret.player, ret.entry) # <<>>)
        => LET moves == legal_moves(ret.player, ret.entry)
               best  == BestMoves(ret.player, ret.entry, ret.arg, ret.ev)
           IN /\ ret.status = "returned"
              /\ ret.value = MoveValue(ret.player, ret.entry, ret.arg, ret.ev,
                                       moves[Min(best)])
              /\ ret.move = moves[Min(best)]

\* C4 amended: with a legal move and depth >= 1, minimax returns the maximum
\* of the move values and, of the moves that attain it, the one that comes
\* last in legal_moves order (the highest board index among the tied moves).
C4_LastMaximum ==
    (ret.op = "minimax" /\ legal_moves(ret.player, ret.entry) # <<>>)
        => LET moves == legal_moves(ret.player, ret.entry)
               best  == BestMoves(ret.player, ret.entry, ret.arg, ret.ev)
           IN /\ ret.status = "returned"
              /\ ret.value = MoveValue(ret.player, ret.entry, ret.arg, ret.ev,
                                       moves[Max(best)])
              /\ ret.move = moves[Max(best)]
              /\ \A k \in best : moves[k] <= ret.move

\* minimax ended on a board where two or more moves attain the maximum and a
\* further move does not.
C4_Witness ==
    /\ ret.op = "minimax" /\ ret.status = "returned"
    /\ LET moves == legal_moves(ret.player, ret.entry)
           best  == BestMoves(ret.player, ret.entry, ret.arg, ret.ev)
       IN /\ moves # <<>>
          /\ Cardinality(best) >= 2
          /\ Cardinality(best) < Len(moves)

\* The player has a square that is_legal accepts.
HasMove(pl, b) == \E sq \in Range(squares) : is_legal(sq, pl, b)

\* C9: next_player(board, prev) is the opponent of prev if the opponent has
\* a legal move, else prev if prev has one, else None; where BLACK has no
\* move and WHITE has one it is WHITE for either prev; it is None exactly
\* where game_over holds for both players.
C9_NextPlayer ==
    ret.op = "next_player"
        => LET prev == ret.player
               opp  == IF prev = BLACK THEN WHITE ELSE BLACK
           IN /\ ret.status = "returned"
              /\ HasMove(opp, ret.entry) => ret.next = opp
              /\ (~HasMove(opp, ret.entry) /\ HasMove(prev, ret.entry))
                    => ret.next = prev
              /\ (~HasMove(opp, ret.entry) /\ ~HasMove(prev, ret.entry))
                    => ret.next = NoPlayer
              /\ (~HasMove(BLACK, ret.entry) /\ HasMove(WHITE, ret.entry))
                    => ret.next = WHITE
              /\ ret.next = NoPlayer
                    <=> (game_over(BLACK, ret.entry) /\ game_over(WHITE, ret.entry))

\* next_player was asked with prev = WHITE on a board where BLACK has no
\* move and WHITE has one.
C9_Witness ==
    /\ ret.op = "next_player" /\ ret.player = WHITE
    /\ ~HasMove(BLACK, ret.entry) /\ HasMove(WHITE, ret.entry)
    /\ ret.next = WHITE

\* next_player was asked on a board where nobody has a move.
C9_WitnessNone ==
    /\ ret.op = "next_player"
    /\ ~HasMove(BLACK, ret.entry) /\ ~HasMove(WHITE, ret.entry)
    /\ ret.next = NoPlayer

\* C10: the strategies of minimax_searcher and alphabeta_searcher with
\* depth >= 1 never end in an error (no make_move of the search raises
\* IllegalMoveError) and, where the player has a legal move, return a move
\* that is legal for the player on the board.
C10_SearchersReturnLegalMove ==
    ret.op \in {"minimax", "alphabeta"}
        => /\ ret.status = "returned"
           /\ ret.error = NoError
           /\ HasMove(ret.player, ret.entry)
                => /\ ret.move \in Range(squares)
                   /\ is_legal(ret.move, ret.player, ret.entry)

\* A searcher has ended a search of full depth from a board with three or
\* more legal moves with a move that is legal there.
C10_Witness ==
    /\ ret.op \in {"minimax", "alphabeta"} /\ ret.status = "returned"
    /\ ret.arg = MaxDepth
    /\ Cardinality({sq \in Range(squares) :
                       is_legal(sq, ret.player, ret.entry)}) >= 3
    /\ is_legal(ret.move, ret.player, ret.entry)

\* The scores random_playout(pl, b) can return, over every random.choice.
RECURSIVE PlayoutScores(_, _)
PlayoutScores(pl, b) ==
    LET moves == legal_moves(pl, b) IN
    IF moves # <<>>
    THEN UNION {{-x : x \in PlayoutScores(opponent(pl), make_move(m, pl, b).board)} :
                   m \in Range(moves)}
    ELSE IF legal_moves(opponent(pl), b) # <<>>
    THEN {-x : x \in PlayoutScores(opponent(pl), b)}
    ELSE {score(pl, b)}

\* Every playout of pl from b counts the same way in random_score.
Deterministic(pl, b) ==
    \/ \A x \in PlayoutScores(pl, b) : x > 0
    \/ \A x \in PlayoutScores(pl, b) : ~(x > 0)

\* The caller's random_score(player, board, num) has returned.
RandomScoreReturned == ret.op = "random_score" /\ ret.status = "returned"

\* C5 as stated: if the entry of the board's key before random_score(player,
\* board, num) is (w, l, _), the entry after it is (w + a, l + b,
\* (w + a) / (w + l + num)), a the number of the call's playouts with a
\* positive score and b = num - a.
C5_EntryAccumulates ==
    RandomScoreReturned
        => LET w == ret.prior[1]
               l == ret.prior[2]
               a == Num(ret.hits)
               b == Num(ret.arg - ret.hits)
           IN /\ Key(ret.entry) \in DOMAIN scores
              /\ scores[Key(ret.entry)] =
                    <<RAdd(w, a), RAdd(l, b),
                      RDiv(RAdd(w, a), RAdd(RAdd(w, l), Num(ret.arg)))>>

\* C6 as stated: on a board whose playouts all count the same way,
\* random_score returns and stores a rate of exactly 1 or exactly 0, also
\* when it is called again on the board with the table kept.
C6_RateIsZeroOrOne ==
    (RandomScoreReturned /\ Deterministic(ret.player, ret.entry))
        => /\ ret.stats[1] \in {Num(0), Num(1)}
           /\ scores[Key(ret.entry)][3] \in {Num(0), Num(1)}

\* C7 as stated: where the player has a legal move, a monte_carlo2 decision
\* ends without an error and returns a move legal for the player on the
\* caller's board.
C7_TreeDecisionCompletes ==
    (ret.op = "monte_carlo2" /\ ret.status # "running"
        /\ HasMove(ret.player, ret.entry))
        => /\ ret.status = "returned"
           /\ ret.move \in Range(squares)
           /\ is_legal(ret.move, ret.player, ret.entry)

Searchers ==
    {"minimax", "alphabeta", "random_score", "monte_carlo1", "monte_carlo2"}

\* C8: no searcher writes to the board it is given: while a call of minimax,
\* alphabeta, random_score, monte_carlo1 or monte_carlo2 runs and after it
\* has returned the caller's board is as on entry, and every list a running
\* random_score, random_playout, tree_playout or monte_carlo frame holds is
\* as it was when the frame was entered, whatever the calls above it did.
C8_SearchersKeepBoard ==
    /\ (ret.op \in Searchers /\ ret.status \in {"running", "returned"})
          => board = ret.entry
    /\ \A k \in 1..Len(stack) : Key(BoardAt(stack[k].ref)) = stack[k].key

\* monte_carlo2 has returned a move after playouts that moved and passed
\* below the caller's board and filled the table.
C8_Witness ==
    /\ ret.op = "monte_carlo2" /\ ret.status = "returned"
    /\ Cardinality(DOMAIN scores) >= 3
    /\ Len(legal_moves(ret.player, ret.entry)) >= 2
    /\ board = ret.entry

\* A playout three frames deep waits for the frame above it.
C8_WitnessRunning ==
    /\ Len(stack) >= 4
    /\ Top.fn \in {"random_playout", "tree_playout"}
    /\ stack[Len(stack) - 1].site = "move"
    /\ Key(BoardAt(Top.ref)) # Key(board)

\* C11: after a successful make_move(move, player, board), is_legal(move, p,
\* board) is false on the resulting board for both players p; a move
\* succeeds only on an EMPTY square and no move makes a taken square EMPTY
\* again, so no square is played twice in a sequence of moves.
C11_SquareNotPlayedTwice ==
    /\ [](ret.op = "make_move" /\ ret.status = "returned"
            => /\ board[ret.arg] # EMPTY
               /\ \A p \in PLAYERS : ~is_legal(ret.arg, p, board))
    /\ [][(ret'.op = "make_move" /\ ret'.status = "returned")
            => /\ board[ret'.arg] = EMPTY
               /\ \A sq \in Range(squares) :
                      board[sq] # EMPTY => board'[sq] # EMPTY]_vars

\* The third move of a game was made, and its square brackets pieces of the
\* opponent on the board it left.
C11_Witness ==
    /\ ret.op = "make_move" /\ ret.status = "returned" /\ moved = MaxGame
    /\ \E k \in 1..Len(DIRECTIONS) :
           ~Falsy(find_bracket(ret.arg, opponent(ret.player), board,
                               DIRECTIONS[k]))

\* The four cells of the centre and what lies around them.
Centre == {44, 45, 54, 55}

DiagonalTo(i) == {i - 11, i - 9, i + 9, i + 11}

NextTo(i) == {i - 10, i - 1, i + 1, i + 10}

\* C12: on the standard opening board legal_moves(BLACK, board) has exactly
\* 4 entries, each an EMPTY cell diagonal to a BLACK centre cell (and next to
\* a WHITE one); make_move succeeds for BLACK exactly on these, and turns
\* exactly one WHITE piece BLACK.
C12_OpeningMoves ==
    (ret.op = "make_move" /\ ret.entry = initial_board /\ ret.player = BLACK)
        => LET moves == legal_moves(BLACK, ret.entry) IN
           /\ Len(moves) = 4
           /\ \A k \in 1..4 :
                 /\ ret.entry[moves[k]] = EMPTY
                 /\ \E c \in Centre : ret.entry[c] = BLACK /\ moves[k] \in DiagonalTo(c)
                 /\ \E c \in Centre : ret.entry[c] = WHITE /\ moves[k] \in NextTo(c)
           /\ ret.status = "returned" <=> ret.arg \in Range(moves)
           /\ ret.status = "returned"
                 => /\ Cardinality({i \in 0..99 : ret.entry[i] = WHITE
                                                   /\ board[i] = BLACK}) = 1
                    /\ {i \in 0..99 : ret.entry[i] # board[i]
                                      /\ ret.entry[i] # WHITE} = {ret.arg}
                    /\ Count(board, BLACK) = 4 /\ Count(board, WHITE) = 1

\* BLACK has opened the game from the standard board.
C12_Witness ==
    /\ ret.op = "make_move" /\ ret.status = "returned"
    /\ ret.entry = initial_board /\ ret.player = BLACK
    /\ board # initial_board

\* The indices find_bracket reads in its while loop, from `bracket` on.
RECURSIVE ScanPath(_, _, _, _)
ScanPath(b, opp, bracket, direction) ==
    IF bracket \notin 0..99 THEN {bracket}
    ELSE IF b[bracket] = opp
    THEN {bracket} \cup ScanPath(b, opp, bracket + direction, direction)
    ELSE {bracket}

\* The indices find_bracket(square, pl, b, direction) reads; make_flips walks
\* the same line, from square + direction up to the bracket.
Scanned(square, pl, b, direction) ==
    LET first == square + direction IN
    IF first \in 0..99 /\ b[first] = pl THEN {first}
    ELSE ScanPath(b, opponent(pl), first, direction)

\* C14: after any sequence of successful make_move calls every border cell
\* is OUTER, and every find_bracket or make_flips scan from a playable
\* square stays within 0..99: all it reads before its last cell is playable.
C14_BorderStaysOuter ==
    ret.status # "raised"
        => /\ \A i \in 0..99 : ~Playable(i) => board[i] = OUTER
           /\ \A sq \in Range(squares), pl \in PLAYERS, k \in 1..Len(DIRECTIONS) :
                 LET cells == Scanned(sq, pl, board, DIRECTIONS[k]) IN
                 /\ cells \subseteq 0..99
                 /\ Cardinality({i \in cells : ~Playable(i)}) <= 1
                 /\ \A i \in cells : ~Playable(i) => i + DIRECTIONS[k] \notin cells

\* A move was made after another, and a scan of find_bracket from its square
\* ran over two or more cells up to the border, where it stopped.
C14_Witness ==
    /\ ret.op = "make_move" /\ ret.status = "returned" /\ moved >= 2
    /\ \E k \in 1..Len(DIRECTIONS) :
          LET cells == Scanned(ret.arg, ret.player, ret.entry, DIRECTIONS[k])
          IN Cardinality(cells) >= 3 /\ \E i \in cells : ~Playable(i)

\* The pieces a player is ahead by.
PieceLead(pl, b) ==
    Cardinality({sq \in Range(squares) : b[sq] = pl})
        - Cardinality({sq \in Range(squares) : b[sq] \notin {pl, EMPTY}})

\* C17: for depth >= 1 and a player without a legal move, minimax and
\* alphabeta return the move None; if the opponent has no legal move either
\* the value is MAX_VALUE, MIN_VALUE or 0 as the player has more, fewer or as
\* many pieces; else it is the opposite of the value of the same search for
\* the opponent on the same board at depth - 1, and the board is unchanged.
C17_NoMoveValue ==
    (ret.op \in {"minimax", "alphabeta"} /\ ~HasMove(ret.player, ret.entry))
        => LET opp  == IF ret.player = BLACK THEN WHITE ELSE BLACK
               lead == PieceLead(ret.player, ret.entry)
               sub  == IF ret.op = "minimax"
                       THEN minimax(opp, ret.entry, ret.arg - 1, ret.ev)
                       ELSE alphabeta(opp, ret.entry, MIN_VALUE, MAX_VALUE,
                                      ret.arg - 1, ret.ev)
           IN /\ ret.status = "returned"
              /\ ret.move = None
              /\ board = ret.entry
              /\ ~HasMove(opp, ret.entry)
                    => ret.value = IF lead > 0 THEN MAX_VALUE
                                   ELSE IF lead < 0 THEN MIN_VALUE ELSE 0
              /\ HasMove(opp, ret.entry)
                    => ~sub.raised /\ ret.value = -sub.value /\ sub.board = ret.entry

\* A search of two plies was run for a player who has to pass, and it found
\* a value other than zero.
C17_Witness ==
    /\ ret.op \in {"minimax", "alphabeta"} /\ ret.status = "returned"
    /\ ret.arg >= 2 /\ ret.value # 0
    /\ ~HasMove(ret.player, ret.entry)
    /\ HasMove(IF ret.player = BLACK THEN WHITE ELSE BLACK, ret.entry)

\* A search was run on a board where the game is over and the player is
\* behind.
C17_WitnessLost ==
    /\ ret.op \in {"minimax", "alphabeta"} /\ ret.status = "returned"
    /\ ~HasMove(BLACK, ret.entry) /\ ~HasMove(WHITE, ret.entry)
    /\ ret.value = MIN_VALUE

\* C18: MIN_VALUE <= weighted_score(player, board) <= MAX_VALUE for every
\* board and player, strictly on every board with an EMPTY playable cell,
\* so also on every board where somebody can still move: there a game won
\* (final_value = MAX_VALUE) is worth more and a game lost (MIN_VALUE) less.
C18_WeightedScoreBounds ==
    /\ ret.op = "weighted_score"
          => /\ ret.status = "returned"
             /\ MIN_VALUE <= ret.value /\ ret.value <= MAX_VALUE
             /\ ((\E sq \in Range(squares) : ret.entry[sq] = EMPTY)
                   \/ HasMove(BLACK, ret.entry) \/ HasMove(WHITE, ret.entry))
                   => MIN_VALUE < ret.value /\ ret.value < MAX_VALUE
    /\ ret.op = "final_value"
          => /\ PieceLead(ret.player, ret.entry) > 0 => ret.value = MAX_VALUE
             /\ PieceLead(ret.player, ret.entry) < 0 => ret.value = MIN_VALUE
             /\ PieceLead(ret.player, ret.entry) = 0 => ret.value = 0

\* weighted_score was asked on a board with one EMPTY cell, of weight 3, that
\* is otherwise as good as a board gets: the value is MAX_VALUE - 3.
C18_Witness ==
    /\ ret.op = "weighted_score" /\ ret.status = "returned"
    /\ Cardinality({sq \in Range(squares) : ret.entry[sq] = EMPTY}) = 1
    /\ ret.value = MAX_VALUE - 3

\* weighted_score was asked on the full board that is worth MAX_VALUE.
C18_WitnessFull ==
    /\ ret.op = "weighted_score" /\ ret.status = "returned"
    /\ ret.value = MAX_VALUE

\* A monte_carlo2 decision is running; Playouts is the number of tree
\* playouts from the root it has started: the loop's count, and one more
\* while the loop waits for a playout or has not counted it yet.
TreeDecisionRuns == stack # <<>> /\ stack[1].fn = "monte_carlo2"

Playouts == stack[1].i + (IF stack[1].site = "wait" THEN 1 ELSE 0)

\* wins + losses of a table entry.
Visits(e) == RAdd(e[1], e[2])

\* C15 as stated: during a monte_carlo2 decision every entry (w, l, s) has
\* w >= 0, l >= 0, w + l >= 1 and s = w / (w + l); every update raises
\* exactly one of w and l of one entry by one (w when the result is positive,
\* else l) and lowers nothing; after the k-th playout from the root the
\* entry of the root board has w + l = k.
C15_TableEntries ==
    /\ [](TreeDecisionRuns
            => /\ \A key \in DOMAIN scores :
                     LET e == scores[key] IN
                     /\ ~RLess(e[1], Num(0)) /\ ~RLess(e[2], Num(0))
                     /\ ~RLess(Visits(e), Num(1))
                     /\ e[3] = RDiv(e[1], Visits(e))
               /\ (Len(stack) = 1 /\ Playouts >= 1)
                     => /\ Key(board) \in DOMAIN scores
                        /\ Visits(scores[Key(board)]) = Num(Playouts))
    /\ [][(TreeDecisionRuns /\ scores' # scores)
            => \E key \in DOMAIN scores' :
                  LET old == IF key \in DOMAIN scores THEN scores[key] ELSE NoStats
                      new == scores'[key]
                  IN /\ DOMAIN scores' = DOMAIN scores \cup {key}
                     /\ \A x \in DOMAIN scores : x # key => scores'[x] = scores[x]
                     /\ IF retval' > 0
                        THEN new[1] = RAdd(old[1], Num(1)) /\ new[2] = old[2]
                        ELSE new[1] = old[1] /\ new[2] = RAdd(old[2], Num(1))]_vars

\* The boards the legal moves of the top frame lead to, as keys.
ChildKeys ==
    {Key(make_move(m, Top.player, BoardAt(Top.ref)).board) :
        m \in Range(legal_moves(Top.player, BoardAt(Top.ref)))}

\* C16: a tree_playout node with legal moves of which one or more lead to a
\* board whose key is not in the table goes on to such a board; it goes on
\* to a board in the table only when every legal move leads to one.
C16_UnseenFirst ==
    [][(stack # <<>> /\ Top.fn = "tree_playout"
          /\ Len(stack') = Len(stack) + 1
          /\ stack'[Len(stack)].site = "move")
         => LET chosen == stack'[Len(stack')].key IN
            /\ chosen \in ChildKeys
            /\ (\E x \in ChildKeys : x \notin DOMAIN scores)
                  => chosen \notin DOMAIN scores
            /\ chosen \in DOMAIN scores => ChildKeys \subseteq DOMAIN scores]_vars

\* The keys of the boards the legal moves of the frame below the top lead to.
SiblingKeys ==
    LET f == stack[Len(stack) - 1] IN
    {Key(make_move(m, f.player, BoardAt(f.ref)).board) :
        m \in Range(legal_moves(f.player, BoardAt(f.ref)))}

\* A tree_playout node has just gone on to a board that is not in the table
\* although another of its moves leads to a board that is.
C16_Witness ==
    /\ Len(stack) >= 2 /\ Top.fn = "tree_playout" /\ Top.site = "call"
    /\ stack[Len(stack) - 1].fn = "tree_playout"
    /\ stack[Len(stack) - 1].site = "move"
    /\ Top.key \notin DOMAIN scores
    /\ \E x \in SiblingKeys : x \in DOMAIN scores

\* A tree_playout node has gone on to a board of the table, all of its
\* moves leading to boards of the table.
C16_WitnessAllSeen ==
    /\ Len(stack) >= 2 /\ Top.fn = "tree_playout" /\ Top.site = "call"
    /\ stack[Len(stack) - 1].fn = "tree_playout"
    /\ stack[Len(stack) - 1].site = "move"
    /\ Cardinality(SiblingKeys) >= 2
    /\ SiblingKeys \subseteq DOMAIN scores

\* C20 as stated: within one monte_carlo2 decision a tree playout updates
\* the entry of a board key at most once, so after k playouts every entry
\* has wins + losses <= k, also for boards on which a player has to pass.
C20_OneUpdatePerPlayout ==
    TreeDecisionRuns
        => \A key \in DOMAIN scores :
              ~RLess(Num(Playouts), Visits(scores[key]))

\* The frames of the running playout, from its first call to the top.
PlayoutFns == {"random_playout", "tree_playout"}

PlayoutFrames == {k \in 1..Len(stack) : stack[k].fn \in PlayoutFns}

PlayoutRuns == PlayoutFrames # {}

\* Nobody has a legal move on b.
Terminal(b) == \A p \in PLAYERS : legal_moves(p, b) = <<>>

\* Frame k has called frame k + 1: after a move the board of the callee has
\* one EMPTY cell fewer and is otherwise the caller's but for the player's
\* own pieces; after a pass it is the caller's board, the caller had no move
\* and the callee has one.
PlayoutLink(k) ==
    LET f == stack[k]
        g == stack[k + 1]
        b == BoardAt(f.ref)
        c == BoardAt(g.ref)
    IN /\ g.fn = f.fn /\ g.player = opponent(f.player)
       /\ f.site \in {"move", "pass"}
       /\ f.site = "move"
            => /\ Count(c, EMPTY) = Count(b, EMPTY) - 1
               /\ \A sq \in 0..99 : b[sq] # EMPTY => c[sq] \in {b[sq], f.player}
       /\ f.site = "pass"
            => /\ c = b
               /\ legal_moves(f.player, b) = <<>>
               /\ g.site # "pass"

\* C13: a random_playout or tree_playout terminates; it returns only from a
\* board on which nobody has a legal move; every move fills exactly one
\* EMPTY cell, a pass is never followed at once by another pass, and the
\* recursion is at most 2 * (EMPTY cells of the starting board) + 1 deep.
C13_PlayoutTerminates ==
    /\ [](PlayoutRuns
            => LET first == Min(PlayoutFrames) IN
               /\ PlayoutFrames = first..Len(stack)
               /\ \A k \in first..(Len(stack) - 1) : PlayoutLink(k)
               /\ Cardinality(PlayoutFrames)
                     <= 2 * Count(BoardAt(stack[first].ref), EMPTY) + 1)
    /\ [][(PlayoutRuns /\ Len(stack') < Len(stack))
            => /\ stack' = Pop
               /\ Top.site = "call" => Terminal(BoardAt(Top.ref))]_vars
    /\ (PlayoutRuns ~> ~PlayoutRuns)

\* A tree playout is on a board where nobody can move, ten or more calls
\* deep, and one of the calls is a pass.
C13_Witness ==
    /\ PlayoutRuns /\ Top.fn = "tree_playout" /\ Top.site = "call"
    /\ Terminal(BoardAt(Top.ref))
    /\ Cardinality(PlayoutFrames) >= 10
    /\ \E k \in PlayoutFrames : stack[k].site = "pass"

\* A random playout has returned its score from the end of the game, after a
\* move and a pass, to its first call.
C13_WitnessRandom ==
    /\ Cardinality(PlayoutFrames) = 1 /\ Top.fn = "random_playout"
    /\ Top.site = "pass"
    /\ Count(BoardAt(Top.ref), EMPTY) >= 1

\* The calls on the stack that have made a move of the simulated game:
\* monte_carlo1 its candidate move, a random_playout its random move.
Movers ==
    {k \in 1..Len(stack) :
        /\ stack[k].fn \in {"monte_carlo1", "random_playout"}
        /\ stack[k].site = "move"}

\* C19 as stated: in a simulated game of a monte_carlo1 decision (the
\* candidate move, then the random playout that scores it) a player makes
\* two moves in a row only when the other player has no legal move on the
\* board in between.
C19_TurnsFollowRules ==
    \A j \in Movers : \A k \in Movers :
        (/\ stack[1].fn = "monte_carlo1"
         /\ j < k /\ \A x \in Movers : ~(j < x /\ x < k)
         /\ stack[j].player = stack[k].player)
            => legal_moves(opponent(stack[k].player), BoardAt(stack[k].ref)) = <<>>

====
